---- MODULE Spec2Model ----
(***************************************************************************)
(* A model of slack-reader's paginated fetch-and-aggregate engine          *)
(* (ListChannelHistory, ListThread), of the single-message fetch           *)
(* GetMessage with NormalizeTimestamp, of its reference resolvers          *)
(* (ResolveChannelID, ResolveUserID), of the remote-call wrapper           *)
(* Client.API and of the chronological sort, written from the Go source.   *)
(*                                                                         *)
(* Encodings.  A ts token is modelled by its rank under string comparison: *)
(* 0 is the empty string "", 1..MaxTs are non-empty tokens in ascending    *)
(* lexicographic order.  A cursor is modelled by a natural: NoCursor (0)   *)
(* is the empty string / an absent cursor, k > 0 a non-empty token.  An    *)
(* error value is a sequence of strings, NoErr (<<>>) being Go's nil.  A   *)
(* Go string that the code takes apart (a reference, a name, an id) is a   *)
(* sequence of one-character strings, <<>> being "".                       *)
(***************************************************************************)
EXTENDS Integers, Sequences, FiniteSets, TLC

\* ------------------------------------------------------------- bounds
\* Requests one run may issue before the model stops following it.
MaxPages == 3
\* Entries the remote delivers to one run, over all its pages.
MaxStore == 3
\* Distinct non-empty ts tokens.
MaxTs == 1
\* Small positive limits a caller passes (1..MaxLimit).
MaxLimit == 2
\* Entries the remote answers to a GetMessage request.
MaxFetched == 2

\* ------------------------------------------------- program constants
\* pageSize := 200 (Slack API max), and ListThread's "limit": "200".
PageCeiling == 200

NoCursor == 0
NoErr == <<>>
Runs == {"r1"}

Min(a, b) == IF a < b THEN a ELSE b

\* ------------------------------------------------------------- strings
Whitespace == {" ", "\t"}

UpperAlnum ==
    {"A", "B", "C", "D", "E", "F", "G", "H", "I", "J", "K", "L", "M", "N", "O",
     "P", "Q", "R", "S", "T", "U", "V", "W", "X", "Y", "Z",
     "0", "1", "2", "3", "4", "5", "6", "7", "8", "9"}

RECURSIVE TrimLeft(_)
TrimLeft(s) ==
    IF s # <<>> /\ Head(s) \in Whitespace THEN TrimLeft(Tail(s)) ELSE s

RECURSIVE TrimRight(_)
TrimRight(s) ==
    IF s # <<>> /\ s[Len(s)] \in Whitespace
      THEN TrimRight(SubSeq(s, 1, Len(s) - 1)) ELSE s

\* The string left as it is.
TrimNothing(s) == s

\* strings.TrimSpace
TrimSpace(s) == TrimRight(TrimLeft(s))

\* strings.HasPrefix
HasPrefix(s, p) == Len(s) >= Len(p) /\ SubSeq(s, 1, Len(p)) = p

\* The prefix left in place.
KeepPrefix(s, p) == s

\* strings.TrimPrefix
TrimPrefix(s, p) == IF HasPrefix(s, p) THEN SubSeq(s, Len(p) + 1, Len(s)) ELSE s

\* regexp ^[CDG][A-Z0-9]{8,}$
MatchChannelID(s) ==
    /\ Len(s) >= 9
    /\ s[1] \in {"C", "D", "G"}
    /\ \A i \in 2..Len(s) : s[i] \in UpperAlnum

\* regexp ^U[A-Z0-9]{8,}$
MatchUserID(s) ==
    /\ Len(s) >= 9
    /\ s[1] = "U"
    /\ \A i \in 2..Len(s) : s[i] \in UpperAlnum

\* The cleaning alone, nothing taken for an ID.
NormalizeNeverID(input) ==
    [name |-> TrimPrefix(TrimSpace(input), <<"#">>), isID |-> FALSE]

\* NormalizeChannelInput: the cleaned value and whether it is an ID.
NormalizeChannelInput(input) ==
    LET trimmed == TrimSpace(input) IN
    IF HasPrefix(trimmed, <<"#">>)
      THEN [name |-> SubSeq(trimmed, 2, Len(trimmed)), isID |-> FALSE]
    ELSE IF MatchChannelID(trimmed)
      THEN [name |-> trimmed, isID |-> TRUE]
    ELSE [name |-> trimmed, isID |-> FALSE]

\* The references callers pass, and the names and ids the remote lists.
NameGeneral == <<"g", "e", "n", "e", "r", "a", "l">>
NameGeneralCap == <<"G", "e", "n", "e", "r", "a", "l">>
ChanID == <<"C", "0", "1", "2", "3", "4", "5", "6", "7", "8">>
NameBob == <<"b", "o", "b">>
NameBobCap == <<"B", "o", "b">>
UserID == <<"U", "0", "1", "2", "3", "4", "5", "6", "7", "8">>
IdA == <<"X", "0", "0", "0", "0", "0", "0", "0", "A">>
IdB == <<"X", "0", "0", "0", "0", "0", "0", "0", "B">>

ChannelInputs ==
    {<<>>, <<" ">>, <<"#">>, <<" ", "#", " ">>,
     NameGeneral, <<" ", "#">> \o NameGeneral \o <<" ">>,
     ChanID, <<" ">> \o ChanID \o <<" ">>, <<"#">> \o ChanID}

UserInputs ==
    {<<>>, <<" ">>, <<"@">>, <<" ", "@", " ">>,
     NameBob, <<" ", "@">> \o NameBob \o <<" ">>,
     UserID, <<" ", "@">> \o UserID,
     SubSeq(UserID, 1, Len(UserID) - 2)}

\* strings.Contains(s, c) for a one-character c
Contains(s, c) == \E i \in DOMAIN s : s[i] = c

\* The token returned as it came.
NormalizeNothing(ts) == ts

\* The separator put into every token of 16 characters or more, whether it
\* holds one already or not.
NormalizeLongTokens(ts) ==
    IF Len(ts) >= 16
      THEN SubSeq(ts, 1, 10) \o <<".">> \o SubSeq(ts, 11, Len(ts))
    ELSE ts

\* NormalizeTimestamp; len(ts) counts bytes, the tokens here are ASCII.
NormalizeTimestamp(ts) ==
    IF Contains(ts, ".") THEN ts
    ELSE IF Len(ts) = 16
      THEN SubSeq(ts, 1, 10) \o <<".">> \o SubSeq(ts, 11, Len(ts))
    ELSE ts

\* The timestamp tokens callers pass: 16 digits, the same with the
\* separator, 15 and 17 digits, 16 characters one of which is a letter, 16
\* characters one of which is the separator, a short token, the empty one.
Ts16 ==
    <<"1", "7", "7", "2", "1", "4", "7", "5", "2", "4",
      "7", "6", "3", "4", "4", "9">>
TsDotted == SubSeq(Ts16, 1, 10) \o <<".">> \o SubSeq(Ts16, 11, 16)
Ts15 == SubSeq(Ts16, 1, 15)
Ts17 == Ts16 \o <<"0">>
Ts16Letter == SubSeq(Ts16, 1, 15) \o <<"x">>
Ts16WithDot == SubSeq(Ts16, 1, 10) \o <<".">> \o SubSeq(Ts16, 11, 15)
TsShort == <<"1", "2", "3", "4", "5">>

TsInputs == {<<>>, TsShort, Ts15, Ts16, Ts17, Ts16Letter, TsDotted, Ts16WithDot}

\* The thread root callers pass to ListThread: the concatenated form, which
\* the normalization changes (the other tokens are followed through
\* GetMessage).
ThreadTsInputs == {Ts16}

\* The thread_ts a fetched message may carry.
RootTs ==
    <<"1", "7", "7", "0", "1", "6", "5", "1", "0", "9", ".",
      "6", "2", "8", "3", "7", "9">>

\* ------------------------------------------------------ remote replies
\* One element of a response's "messages" list: a key-value record, with or
\* without a string "ts", or a value of another JSON type.
Entries ==
    {[kind |-> "other", hasTs |-> FALSE, ts |-> 0],
     [kind |-> "map", hasTs |-> FALSE, ts |-> 0]}
    \cup {[kind |-> "map", hasTs |-> TRUE, ts |-> t] : t \in 1..MaxTs}

\* The entry lists of at most room entries.
EntryLists(room) == UNION {[1..n -> Entries] : n \in 0..room}

\* The "error" field of a failure payload: missing, empty or a code.
RemoteErrors == {"absent", "", "ratelimited"}

\* One element of the "messages" list answered to GetMessage: a key-value
\* record or another value.  reply_count is a number (a whole one, as the
\* remote counts replies) or is missing; threadTs is the string thread_ts,
\* <<>> when it is missing, not a string or empty.
MsgEntries ==
    {[kind |-> "other", hasCount |-> FALSE, count |-> 0, threadTs |-> <<>>]}
    \cup {[kind |-> "map", hasCount |-> FALSE, count |-> 0, threadTs |-> t] :
             t \in {<<>>, RootTs}}
    \cup {[kind |-> "map", hasCount |-> TRUE, count |-> c, threadTs |-> t] :
             c \in {-1, 0, 2}, t \in {<<>>, RootTs}}

\* What the transport hands to Client.API: a network failure, a body that is
\* not JSON, or a JSON object.  hasList says that "messages" is a list.
FailedRaw ==
    {[kind |-> k, ok |-> "absent", error |-> "absent", hasList |-> FALSE,
      items |-> <<>>, next |-> NoCursor] : k \in {"neterr", "badjson"}}
    \cup {[kind |-> "json", ok |-> o, error |-> e, hasList |-> FALSE,
           items |-> <<>>, next |-> NoCursor] :
             o \in {"false", "absent"}, e \in RemoteErrors}

\* A successful list response to the k-th request: any entry list (or no
\* list at all) and either no continuation cursor or the cursor token k.
ListRaw(k, room) ==
    {[kind |-> "json", ok |-> "true", error |-> "absent", hasList |-> TRUE,
      items |-> l, next |-> c] : l \in EntryLists(room), c \in {NoCursor, k}}
    \cup {[kind |-> "json", ok |-> "true", error |-> "absent", hasList |-> FALSE,
           items |-> <<>>, next |-> c] : c \in {NoCursor, k}}

\* A successful conversations.history response to GetMessage: at most
\* MaxFetched entries, or no list at all.
MessageRaw ==
    {[kind |-> "json", ok |-> "true", error |-> "absent", hasList |-> TRUE,
      items |-> l, next |-> NoCursor] :
        l \in UNION {[1..n -> MsgEntries] : n \in 0..MaxFetched}}
    \cup {[kind |-> "json", ok |-> "true", error |-> "absent", hasList |-> FALSE,
           items |-> <<>>, next |-> NoCursor]}

\* One element of a "channels" or "members" list: a key-value record with a
\* name and an id (<<>> when the id is missing or empty), or another value.
\* The remote lists the name n, under two ids and without one, and the
\* name decoy, which differs from n in case.
DirEntries(n, decoy) ==
    {[kind |-> "other", name |-> <<>>, id |-> <<>>],
     [kind |-> "map", name |-> decoy, id |-> IdA]}
    \cup {[kind |-> "map", name |-> n, id |-> i] : i \in {<<>>, IdA, IdB}}

DirLists(names, room) ==
    UNION {[1..n -> DirEntries(names[1], names[2])] : n \in 0..room}

\* A successful conversations.list / users.list response to the k-th request.
DirRaw(names, k, room) ==
    {[kind |-> "json", ok |-> "true", error |-> "absent", hasList |-> TRUE,
      items |-> l, next |-> c] : l \in DirLists(names, room), c \in {NoCursor, k}}
    \cup {[kind |-> "json", ok |-> "true", error |-> "absent", hasList |-> FALSE,
           items |-> <<>>, next |-> c] : c \in {NoCursor, k}}

\* One element of messages.matches: a record, with or without a channel
\* object, or a value of another JSON type.  id is the channel's string
\* id (<<>> when missing, not a string or empty), name the channel's name,
\* which may or may not be the one searched for.
Matches ==
    {[kind |-> "other", hasChannel |-> FALSE, id |-> <<>>, name |-> <<>>],
     [kind |-> "map", hasChannel |-> FALSE, id |-> <<>>, name |-> <<>>],
     [kind |-> "map", hasChannel |-> TRUE, id |-> <<>>, name |-> NameGeneral]}
    \cup {[kind |-> "map", hasChannel |-> TRUE, id |-> IdA, name |-> n] :
             n \in {NameGeneral, NameGeneralCap}}

\* A further match behind the first: count = 1 asks the remote for one
\* match, and nothing in resolveViaSearch relies on getting no more.
FurtherMatch ==
    [kind |-> "map", hasChannel |-> TRUE, id |-> IdB, name |-> NameGeneral]

\* A successful search.messages response.  hasList says that "messages"
\* is an object; items is messages.matches.
SearchRaw ==
    {[kind |-> "json", ok |-> "true", error |-> "absent", hasList |-> TRUE,
      items |-> l, next |-> NoCursor] :
        l \in {<<>>} \cup {<<m>> : m \in Matches}
                     \cup {<<m, FurtherMatch>> : m \in Matches}}
    \cup {[kind |-> "json", ok |-> "true", error |-> "absent", hasList |-> FALSE,
           items |-> <<>>, next |-> NoCursor]}

\* The failures a search.messages call is followed through.
SearchFailedRaw ==
    {f \in FailedRaw : f.kind = "neterr" \/ (f.ok = "false" /\ f.error = "ratelimited")}

NilResp ==
    [kind |-> "nil", ok |-> "absent", error |-> "absent", hasList |-> FALSE,
     items |-> <<>>, next |-> NoCursor]

\* ---------------------------------------------------------- Client.API
\* errMsg, _ := result["error"].(string); if errMsg == "" { "unknown error" }
ErrMsg(raw) ==
    IF raw.error \in {"absent", ""} THEN "unknown error" ELSE raw.error

\* Client.API without the check of the ok flag.
APIIgnoresOk(method, raw) ==
    IF raw.kind = "neterr"
      THEN [val |-> NilResp, err |-> <<"slack API", method, "transport">>]
    ELSE IF raw.kind = "badjson"
      THEN [val |-> NilResp, err |-> <<"unmarshal", method>>]
    ELSE [val |-> raw, err |-> NoErr]

API(method, raw) ==
    IF raw.kind = "neterr"
      THEN [val |-> NilResp, err |-> <<"slack API", method, "transport">>]
    ELSE IF raw.kind = "badjson"
      THEN [val |-> NilResp, err |-> <<"unmarshal", method>>]
    ELSE IF raw.ok # "true"
      THEN [val |-> NilResp, err |-> <<"slack API", method, ErrMsg(raw)>>]
    ELSE [val |-> raw, err |-> NoErr]

\* fmt.Errorf("<method>: %w", err)
Wrap(method, e) == <<method>> \o e

\* ------------------------------------------------------------- helpers
\* Every entry kept, key-value record or not.
RECURSIVE CollectAll(_, _, _)
CollectAll(items, page, i) ==
    IF i > Len(items) THEN <<>>
    ELSE <<[hasTs |-> items[i].hasTs, ts |-> items[i].ts, src |-> <<page, i>>]>>
         \o CollectAll(items, page, i + 1)

\* messages, _ := resp["messages"].([]any); keep the entries that are maps.
\* A kept record is the entry as delivered; src (response number, index in
\* its list) stands for the record's remaining, opaque fields.
RECURSIVE Collect(_, _, _)
Collect(items, page, i) ==
    IF i > Len(items) THEN <<>>
    ELSE (IF items[i].kind = "map"
            THEN <<[hasTs |-> items[i].hasTs, ts |-> items[i].ts,
                    src |-> <<page, i>>]>>
            ELSE <<>>)
         \o Collect(items, page, i + 1)

\* Nothing of a page kept.
MessagesDropped(resp, page) == <<>>

\* The key-value records of one response, in the order delivered.
Messages(resp, page) == Collect(resp.items, page, 1)

\* tsI, _ := allMessages[i]["ts"].(string)
TsOf(m) == IF m.hasTs THEN m.ts ELSE 0

\* The comparison turned around (newest first).
LessDescending(a, b) == TsOf(a) > TsOf(b)

\* The less function handed to sort.Slice.
Less(a, b) == TsOf(a) < TsOf(b)

Remove(s, i) == SubSeq(s, 1, i - 1) \o SubSeq(s, i + 1, Len(s))

\* sort.Slice(x, less): "The sort is not guaranteed to be stable."  Every
\* arrangement in which no element is less than one placed before it is a
\* possible outcome.
RECURSIVE SortSlice(_)
SortSlice(s) ==
    IF s = <<>> THEN {<<>>}
    ELSE UNION {{<<s[i]>> \o q : q \in SortSlice(Remove(s, i))} :
                  i \in {i \in DOMAIN s : \A j \in DOMAIN s : ~Less(s[j], s[i])}}

\* The last match looked at instead of the first.
ViaSearchLastMatch(out) ==
    IF out.err # NoErr \/ ~out.val.hasList \/ Len(out.val.items) = 0
      THEN [id |-> <<>>, err |-> <<"no matches">>]
    ELSE LET m == out.val.items[Len(out.val.items)] IN
         IF m.kind = "map" /\ m.hasChannel /\ m.id # <<>>
           THEN [id |-> m.id, err |-> NoErr]
           ELSE [id |-> <<>>, err |-> <<"no channel ID in match">>]

\* resolveViaSearch, after the call: the channel id, or why there is none.
ViaSearch(out) ==
    IF out.err # NoErr THEN [id |-> <<>>, err |-> out.err]
    ELSE IF ~out.val.hasList THEN [id |-> <<>>, err |-> <<"no messages field">>]
    ELSE IF Len(out.val.items) = 0 THEN [id |-> <<>>, err |-> <<"no matches">>]
    ELSE IF out.val.items[1].kind # "map"
      THEN [id |-> <<>>, err |-> <<"invalid match">>]
    ELSE IF ~out.val.items[1].hasChannel
      THEN [id |-> <<>>, err |-> <<"no channel in match">>]
    ELSE IF out.val.items[1].id = <<>>
      THEN [id |-> <<>>, err |-> <<"no channel ID in match">>]
    ELSE [id |-> out.val.items[1].id, err |-> NoErr]

\* The fast path's answer never taken.
FastPathNever(got) == FALSE

\* The fast path's answer taken whatever it is.
FastPathAlways(got) == TRUE

\* ResolveChannelID: err == nil && channelID != ""
FastPathHit(got) == got.err = NoErr /\ got.id # <<>>

\* The scan of one page of channels or members: the id of the first record
\* whose name equals name and whose id is not empty, <<>> when there is none.
RECURSIVE ScanFrom(_, _, _)
ScanFrom(items, name, i) ==
    IF i > Len(items) THEN <<>>
    ELSE IF /\ items[i].kind = "map"
            /\ items[i].name = name
            /\ items[i].id # <<>>
      THEN items[i].id
    ELSE ScanFrom(items, name, i + 1)

\* The scan keeping the last matching record of the page, not the first.
RECURSIVE ScanBack(_, _, _)
ScanBack(items, name, i) ==
    IF i < 1 THEN <<>>
    ELSE IF /\ items[i].kind = "map"
            /\ items[i].name = name
            /\ items[i].id # <<>>
      THEN items[i].id
    ELSE ScanBack(items, name, i - 1)

LastMatch(items, name) == ScanBack(items, name, Len(items))

FirstMatch(items, name) == ScanFrom(items, name, 1)

\* The page size computed without the unlimited flag: 0 for limit <= 0.
PageSizeIgnoresUnlimited(unl, lim, n) ==
    IF lim - n < PageCeiling THEN lim - n ELSE PageCeiling

\* The page size computed from the limit alone, not from what is collected.
PageSizeStale(unl, lim, n) ==
    IF ~unl /\ lim < PageCeiling THEN lim ELSE PageCeiling

\* ListChannelHistory: the page size of the next request.
PageSize(unl, lim, n) ==
    IF ~unl /\ lim - n < PageCeiling THEN lim - n ELSE PageCeiling

\* The thread page size cut to what the limit still allows, as in
\* ListChannelHistory.
ThreadPageSizeRemaining(lim, n) ==
    IF lim > 0 /\ lim - n < PageCeiling THEN lim - n ELSE PageCeiling

\* ListThread: "limit": "200" in every request.
ThreadPageSize(lim, n) == PageCeiling

\* A single request, as before pagination: the cursor is never followed.
HistoryStopSinglePage(unl, lim, n, next) ==
    IF ~unl /\ n >= lim THEN "limit" ELSE "end"

\* The cursor check placed before the limit check.
HistoryStopCursorFirst(unl, lim, n, next) ==
    IF next = NoCursor THEN "end"
    ELSE IF ~unl /\ n >= lim THEN "limit"
    ELSE "more"

\* ListChannelHistory after accumulating a page: the limit check comes
\* before the cursor check.
HistoryStop(unl, lim, n, next) ==
    IF ~unl /\ n >= lim THEN "limit"
    ELSE IF next = NoCursor THEN "end"
    ELSE "more"

\* Every cursor followed, whatever has been collected.
ThreadStopIgnoresLimit(lim, n, next) ==
    IF next = NoCursor THEN "end" ELSE "more"

\* ListThread after accumulating a page: the cursor check comes first.
ThreadStop(lim, n, next) ==
    IF next = NoCursor THEN "end"
    ELSE IF lim > 0 /\ n >= lim THEN "limit"
    ELSE "more"

\* The newest lim records kept instead of the first.
TruncateTail(s, lim) == SubSeq(s, Len(s) - lim + 1, Len(s))

\* allMessages[:limit]
Truncate(s, lim) == SubSeq(s, 1, lim)

\* The caller's token passed on as it came, as before NormalizeTimestamp
\* was introduced.
CallerTimestampRaw(input) == input

\* ts = NormalizeTimestamp(ts) and threadTS = NormalizeTimestamp(threadTS):
\* the value of the local after the first statement.
CallerTimestamp(input) == NormalizeTimestamp(input)

\* replyCount, _ := msg["reply_count"].(float64)
ReplyCount(msg) == IF msg.hasCount THEN msg.count ELSE 0

\* if replyCount > 0
HasThread(msg) == ReplyCount(msg) > 0

\* The summary falling back to the message's own absent thread_ts.
ThreadOfNoFallback(msg, ts) ==
    IF HasThread(msg)
      THEN <<[ts |-> msg.threadTs, length |-> ReplyCount(msg)]>>
      ELSE <<>>

\* result.Thread: nil (<<>>), or the map with the thread's root ts and
\* int(replyCount); the conversion is exact on whole numbers.
ThreadOf(msg, ts) ==
    IF HasThread(msg)
      THEN <<[ts |-> IF msg.threadTs = <<>> THEN ts ELSE msg.threadTs,
              length |-> ReplyCount(msg)]>>
      ELSE <<>>

\* GetMessage after the call: the (*MessageResult, error) it returns, a nil
\* result being <<>>.
MessageResult(out, ts) ==
    IF out.err # NoErr
      THEN [res |-> <<>>, err |-> Wrap("conversations.history", out.err)]
    ELSE IF Len(out.val.items) = 0
      THEN [res |-> <<>>, err |-> <<"message not found at ts=">> \o ts]
    ELSE IF out.val.items[1].kind # "map"
      THEN [res |-> <<>>, err |-> <<"invalid message format">>]
    ELSE [res |-> <<[Message |-> out.val.items[1],
                     Thread |-> ThreadOf(out.val.items[1], ts)]>>,
          err |-> NoErr]

\* --------------------------------------------------------------- state
VARIABLES
    pc,          \* per run: "idle", "search", "loop" (between two page requests), "done"
    op,          \* per run: the operation called
    argLimit,    \* per run: the limit the caller passed
    unlimited,   \* per run: ListChannelHistory's local
    limit,       \* per run: the local limit
    allMessages, \* per run: the accumulation buffer
    cursor,      \* per run: the cursor for the next request
    calls,       \* per run: the requests issued so far, in order
    resps,       \* per run: what the transport answered, in order
    outs,        \* per run: what Client.API returned, in order
    result,      \* per run: the returned records, or the returned id
    err,         \* per run: the returned error
    argRef,      \* per run: the reference the caller passed to a resolver
    name,        \* per run: the resolver's cleaned name
    argTs,       \* per run: the timestamp token the caller passed
    ts,          \* per run: the local ts / threadTS after its normalization
    mu,          \* UserProvider.mu: the goroutine holding it, or NoHolder
    cache,       \* UserProvider.cache: per id <<>> (no entry) or <<name>>
    upc,         \* per goroutine: "idle", "lock" (at u.mu.Lock), "call" (in users.info)
    uid,         \* per goroutine: the id passed to UsernameForID
    lookups,     \* UsernameForID calls started so far
    infoCalls,   \* the users.info requests issued, in order
    infoResps,   \* the users.info answers received, in order
    returns      \* what the UsernameForID calls returned, in order

\* The state of the fetches and resolvers, and that of the UserProvider.
fvars == <<pc, op, argLimit, unlimited, limit, allMessages, cursor, calls,
           resps, outs, result, err, argRef, name, argTs, ts>>

uvars == <<mu, cache, upc, uid, lookups, infoCalls, infoResps, returns>>

vars == <<fvars, uvars>>

\* The goroutines that call UsernameForID on the one UserProvider, and the
\* ids they ask for.
Goroutines == {"g1", "g2"}
UserIDs == {"U01", "U02"}
NoHolder == "none"

\* NewUserProvider: an empty cache and an unlocked mutex.
InitUsers ==
    /\ mu = NoHolder
    /\ cache = [id \in UserIDs |-> <<>>]
    /\ upc = [g \in Goroutines |-> "idle"]
    /\ uid = [g \in Goroutines |-> ""]
    /\ lookups = 0
    /\ infoCalls = <<>>
    /\ infoResps = <<>>
    /\ returns = <<>>

Limits == {-1, 0} \cup (1..MaxLimit) \cup {PageCeiling + 1}

Init ==
    /\ pc = [r \in Runs |-> "idle"]
    /\ op = [r \in Runs |-> "none"]
    /\ argLimit = [r \in Runs |-> 0]
    /\ unlimited = [r \in Runs |-> FALSE]
    /\ limit = [r \in Runs |-> 0]
    /\ allMessages = [r \in Runs |-> <<>>]
    /\ cursor = [r \in Runs |-> NoCursor]
    /\ calls = [r \in Runs |-> <<>>]
    /\ resps = [r \in Runs |-> <<>>]
    /\ outs = [r \in Runs |-> <<>>]
    /\ result = [r \in Runs |-> <<>>]
    /\ err = [r \in Runs |-> NoErr]
    /\ argRef = [r \in Runs |-> <<>>]
    /\ name = [r \in Runs |-> <<>>]
    /\ argTs = [r \in Runs |-> <<>>]
    /\ ts = [r \in Runs |-> <<>>]
    /\ InitUsers

\* The entries the remote has delivered to run r so far.
RECURSIVE EntriesIn(_)
EntriesIn(rs) ==
    IF rs = <<>> THEN 0 ELSE Len(Head(rs).items) + EntriesIn(Tail(rs))

Room(r) == MaxStore - EntriesIn(resps[r])

\* The error returned together with what was accumulated so far.
FailPartial(r, e) ==
    /\ pc' = [pc EXCEPT ![r] = "done"]
    /\ result' = [result EXCEPT ![r] = allMessages[r]]
    /\ err' = [err EXCEPT ![r] = e]
    /\ UNCHANGED <<allMessages, cursor>>

\* The error swallowed: the operation ends with nothing and no error.
FailSwallowed(r, e) ==
    /\ pc' = [pc EXCEPT ![r] = "done"]
    /\ result' = [result EXCEPT ![r] = <<>>]
    /\ err' = [err EXCEPT ![r] = NoErr]
    /\ UNCHANGED <<allMessages, cursor>>

\* return nil, err
Fail(r, e) ==
    /\ pc' = [pc EXCEPT ![r] = "done"]
    /\ result' = [result EXCEPT ![r] = <<>>]
    /\ err' = [err EXCEPT ![r] = e]
    /\ UNCHANGED <<allMessages, cursor>>

\* break; sort.Slice(allMessages, ...); return allMessages, nil
SortAndReturn(r, msgs) ==
    /\ pc' = [pc EXCEPT ![r] = "done"]
    /\ allMessages' = [allMessages EXCEPT ![r] = msgs]
    /\ \E s \in SortSlice(msgs) : result' = [result EXCEPT ![r] = s]
    /\ err' = [err EXCEPT ![r] = NoErr]
    /\ UNCHANGED cursor

\* The loop repeated without adopting the returned cursor.
ContinueKeepsCursor(r, msgs, next) ==
    /\ allMessages' = [allMessages EXCEPT ![r] = msgs]
    /\ UNCHANGED <<cursor, pc, result, err>>

\* One cursor variable for all runs: the loop writes it for every run.
ContinueSharedCursor(r, msgs, next) ==
    /\ allMessages' = [allMessages EXCEPT ![r] = msgs]
    /\ cursor' = [q \in DOMAIN cursor |-> next]
    /\ UNCHANGED <<pc, result, err>>

\* cursor = next, and around the loop again
Continue(r, msgs, next) ==
    /\ allMessages' = [allMessages EXCEPT ![r] = msgs]
    /\ cursor' = [cursor EXCEPT ![r] = next]
    /\ UNCHANGED <<pc, result, err>>

\* client.API(ctx, method, params): the request is recorded, the transport
\* answers raw, and Client.API turns the answer into (response, error).
Exchange(r, req, raw) ==
    /\ calls' = [calls EXCEPT ![r] = Append(@, req)]
    /\ resps' = [resps EXCEPT ![r] = Append(@, raw)]
    /\ outs' = [outs EXCEPT ![r] = Append(@, API(req.method, raw))]

\* ListChannelHistory, up to the loop.
CallHistory(r) ==
    /\ pc[r] = "idle"
    /\ \E n \in Limits :
         /\ argLimit' = [argLimit EXCEPT ![r] = n]
         /\ unlimited' = [unlimited EXCEPT ![r] = (n <= 0)]
         /\ limit' = [limit EXCEPT ![r] = IF n <= 0 THEN 0 ELSE n]
    /\ op' = [op EXCEPT ![r] = "history"]
    /\ pc' = [pc EXCEPT ![r] = "loop"]
    /\ allMessages' = [allMessages EXCEPT ![r] = <<>>]
    /\ cursor' = [cursor EXCEPT ![r] = NoCursor]
    /\ UNCHANGED <<calls, resps, outs, result, err, argRef, name, argTs, ts>>
    /\ UNCHANGED uvars

\* One iteration of ListChannelHistory's loop, the transport answering
\* with one of answers.
HistoryStep(r, answers) ==
    /\ pc[r] = "loop"
    /\ op[r] = "history"
    /\ Len(calls[r]) < MaxPages
    /\ LET pageSize == PageSize(unlimited[r], limit[r], Len(allMessages[r]))
           page == Len(calls[r]) + 1
       IN  IF pageSize <= 0
             THEN /\ SortAndReturn(r, allMessages[r])
                  /\ UNCHANGED <<calls, resps, outs>>
             ELSE \E raw \in answers :
                    LET req == [method |-> "conversations.history",
                                limit |-> pageSize, cursor |-> cursor[r]]
                        out == API(req.method, raw)
                        acc == allMessages[r] \o Messages(out.val, page)
                        stop == HistoryStop(unlimited[r], limit[r], Len(acc),
                                            out.val.next)
                    IN  /\ Exchange(r, req, raw)
                        /\ IF out.err # NoErr
                             THEN Fail(r, Wrap("conversations.history", out.err))
                           ELSE IF stop = "limit"
                             THEN SortAndReturn(r, Truncate(acc, limit[r]))
                           ELSE IF stop = "end"
                             THEN SortAndReturn(r, acc)
                           ELSE Continue(r, acc, out.val.next)
    /\ UNCHANGED <<op, argLimit, unlimited, limit, argRef, name, argTs, ts>>
    /\ UNCHANGED uvars

\* One iteration of ListChannelHistory's loop.
HistoryPage(r) ==
    HistoryStep(r, ListRaw(Len(calls[r]) + 1, Room(r)) \cup FailedRaw)

\* ListThread, up to the loop.
CallThread(r) ==
    /\ pc[r] = "idle"
    /\ \E n \in Limits :
         /\ argLimit' = [argLimit EXCEPT ![r] = n]
         /\ limit' = [limit EXCEPT ![r] = n]
    /\ \E threadTS \in ThreadTsInputs :
         /\ argTs' = [argTs EXCEPT ![r] = threadTS]
         /\ ts' = [ts EXCEPT ![r] = CallerTimestamp(threadTS)]
    /\ op' = [op EXCEPT ![r] = "thread"]
    /\ pc' = [pc EXCEPT ![r] = "loop"]
    /\ allMessages' = [allMessages EXCEPT ![r] = <<>>]
    /\ cursor' = [cursor EXCEPT ![r] = NoCursor]
    /\ UNCHANGED <<unlimited, calls, resps, outs, result, err, argRef, name>>
    /\ UNCHANGED uvars

\* One iteration of ListThread's loop, the transport answering with one
\* of answers.
ThreadStep(r, answers) ==
    /\ pc[r] = "loop"
    /\ op[r] = "thread"
    /\ Len(calls[r]) < MaxPages
    /\ LET page == Len(calls[r]) + 1
       IN  \E raw \in answers :
             LET req == [method |-> "conversations.replies", ts |-> ts[r],
                         limit |-> ThreadPageSize(limit[r], Len(allMessages[r])),
                         cursor |-> cursor[r]]
                 out == API(req.method, raw)
                 acc == allMessages[r] \o Messages(out.val, page)
                 stop == ThreadStop(limit[r], Len(acc), out.val.next)
             IN  /\ Exchange(r, req, raw)
                 /\ IF out.err # NoErr
                      THEN Fail(r, Wrap("conversations.replies", out.err))
                    ELSE IF stop = "limit"
                      THEN SortAndReturn(r, Truncate(acc, limit[r]))
                    ELSE IF stop = "end"
                      THEN SortAndReturn(r, acc)
                    ELSE Continue(r, acc, out.val.next)
    /\ UNCHANGED <<op, argLimit, unlimited, limit, argRef, name, argTs, ts>>
    /\ UNCHANGED uvars

\* One iteration of ListThread's loop.
ThreadPage(r) ==
    ThreadStep(r, ListRaw(Len(calls[r]) + 1, Room(r)) \cup FailedRaw)

\* GetMessage: the whole call, its one request included.
GetMessage(r) ==
    /\ pc[r] = "idle"
    /\ \E input \in TsInputs, raw \in MessageRaw \cup FailedRaw :
         LET t == CallerTimestamp(input)
             req == [method |-> "conversations.history", latest |-> t,
                     oldest |-> t, inclusive |-> "true", limit |-> 1,
                     cursor |-> NoCursor]
             got == MessageResult(API(req.method, raw), t)
         IN  /\ argTs' = [argTs EXCEPT ![r] = input]
             /\ ts' = [ts EXCEPT ![r] = t]
             /\ Exchange(r, req, raw)
             /\ result' = [result EXCEPT ![r] = got.res]
             /\ err' = [err EXCEPT ![r] = got.err]
    /\ op' = [op EXCEPT ![r] = "message"]
    /\ pc' = [pc EXCEPT ![r] = "done"]
    /\ UNCHANGED <<argLimit, unlimited, limit, allMessages, cursor, argRef, name>>
    /\ UNCHANGED uvars

\* return id, nil
ReturnID(r, id) ==
    /\ pc' = [pc EXCEPT ![r] = "done"]
    /\ result' = [result EXCEPT ![r] = id]
    /\ err' = [err EXCEPT ![r] = NoErr]
    /\ UNCHANGED <<allMessages, cursor>>

\* One iteration of the listing loop of resolveViaPagination and of
\* ResolveUserID: request a page, scan it, follow the cursor.
ScanPage(r, method, names, notFound) ==
    /\ Len(calls[r]) < MaxPages
    /\ LET page == Len(calls[r]) + 1
       IN  \E raw \in DirRaw(names, page, Room(r)) \cup FailedRaw :
             LET req == [method |-> method, limit |-> PageCeiling,
                         cursor |-> cursor[r]]
                 out == API(req.method, raw)
                 found == FirstMatch(out.val.items, name[r])
             IN  /\ Exchange(r, req, raw)
                 /\ IF out.err # NoErr
                      THEN Fail(r, Wrap(method, out.err))
                    ELSE IF found # <<>>
                      THEN ReturnID(r, found)
                    ELSE IF out.val.next = NoCursor
                      THEN Fail(r, <<notFound>> \o name[r])
                    ELSE Continue(r, allMessages[r], out.val.next)
    /\ UNCHANGED <<op, argLimit, unlimited, limit, argRef, name, argTs, ts>>

\* ResolveChannelID, up to the search.messages call.
CallResolveChannel(r) ==
    /\ pc[r] = "idle"
    /\ \E input \in ChannelInputs :
         LET n == NormalizeChannelInput(input) IN
         /\ argRef' = [argRef EXCEPT ![r] = input]
         /\ name' = [name EXCEPT ![r] = n.name]
         /\ IF n.isID
              THEN ReturnID(r, n.name)
            ELSE IF n.name = <<>>
              THEN Fail(r, <<"channel name is empty">>)
            ELSE /\ pc' = [pc EXCEPT ![r] = "search"]
                 /\ UNCHANGED <<allMessages, cursor, result, err>>
    /\ op' = [op EXCEPT ![r] = "channel"]
    /\ UNCHANGED <<argLimit, unlimited, limit, calls, resps, outs, argTs, ts>>
    /\ UNCHANGED uvars

\* ResolveChannelID's fast path: resolveViaSearch, then the id it found or
\* the start of resolveViaPagination.
SearchChannel(r) ==
    /\ pc[r] = "search"
    /\ op[r] = "channel"
    /\ \E raw \in SearchRaw \cup SearchFailedRaw :
         LET req == [method |-> "search.messages", limit |-> 1,
                     cursor |-> NoCursor,
                     query |-> <<"i", "n", ":", "#">> \o name[r]]
             got == ViaSearch(API(req.method, raw))
         IN  /\ Exchange(r, req, raw)
             /\ IF FastPathHit(got)
                  THEN ReturnID(r, got.id)
                  ELSE /\ pc' = [pc EXCEPT ![r] = "loop"]
                       /\ cursor' = [cursor EXCEPT ![r] = NoCursor]
                       /\ UNCHANGED <<allMessages, result, err>>
    /\ UNCHANGED <<op, argLimit, unlimited, limit, argRef, name, argTs, ts>>
    /\ UNCHANGED uvars

\* One iteration of resolveViaPagination's loop.
ChannelPage(r) ==
    /\ pc[r] = "loop"
    /\ op[r] = "channel"
    /\ ScanPage(r, "conversations.list", <<NameGeneral, NameGeneralCap>>,
                "could not resolve channel name: #")
    /\ UNCHANGED uvars

\* ResolveUserID, up to the users.list loop.
CallResolveUser(r) ==
    /\ pc[r] = "idle"
    /\ \E handle \in UserInputs :
         LET cleaned == TrimPrefix(TrimSpace(handle), <<"@">>) IN
         /\ argRef' = [argRef EXCEPT ![r] = handle]
         /\ name' = [name EXCEPT ![r] = cleaned]
         /\ IF cleaned = <<>>
              THEN Fail(r, <<"user handle is empty">>)
            ELSE IF MatchUserID(cleaned)
              THEN ReturnID(r, cleaned)
            ELSE /\ pc' = [pc EXCEPT ![r] = "loop"]
                 /\ cursor' = [cursor EXCEPT ![r] = NoCursor]
                 /\ UNCHANGED <<allMessages, result, err>>
    /\ op' = [op EXCEPT ![r] = "user"]
    /\ UNCHANGED <<argLimit, unlimited, limit, calls, resps, outs, argTs, ts>>
    /\ UNCHANGED uvars

\* One iteration of ResolveUserID's loop.
UserPage(r) ==
    /\ pc[r] = "loop"
    /\ op[r] = "user"
    /\ ScanPage(r, "users.list", <<NameBob, NameBobCap>>,
                "could not resolve user: @")
    /\ UNCHANGED uvars

Next ==
    \/ \E r \in Runs : CallHistory(r)
    \/ \E r \in Runs : HistoryPage(r)
    \/ \E r \in Runs : GetMessage(r)
    \/ \E r \in Runs : CallThread(r)
    \/ \E r \in Runs : ThreadPage(r)
    \/ \E r \in Runs : CallResolveChannel(r)
    \/ \E r \in Runs : SearchChannel(r)
    \/ \E r \in Runs : ChannelPage(r)
    \/ \E r \in Runs : CallResolveUser(r)
    \/ \E r \in Runs : UserPage(r)

Spec == Init /\ [][Next]_vars

\* The fetch operations alone: ListChannelHistory, GetMessage, ListThread.
NextFetch ==
    \/ \E r \in Runs : CallHistory(r)
    \/ \E r \in Runs : HistoryPage(r)
    \/ \E r \in Runs : GetMessage(r)
    \/ \E r \in Runs : CallThread(r)
    \/ \E r \in Runs : ThreadPage(r)

SpecFetch == Init /\ [][NextFetch]_vars

\* The reference resolvers alone: ResolveChannelID, ResolveUserID.
NextResolve ==
    \/ \E r \in Runs : CallResolveChannel(r)
    \/ \E r \in Runs : SearchChannel(r)
    \/ \E r \in Runs : ChannelPage(r)
    \/ \E r \in Runs : CallResolveUser(r)
    \/ \E r \in Runs : UserPage(r)

SpecResolve == Init /\ [][NextResolve]_vars

\* Two fetches running concurrently, each a ListChannelHistory or a
\* ListThread call of its own: every step is one step of one of them.  The
\* remote answers each with pages of at most one entry or with a transport
\* failure, and each run is followed for PairPages requests.
Runs2 == {"r1", "r2"}
PairPages == MaxPages - 1
PairLimits == {0, 1}

InitPair ==
    /\ pc = [r \in Runs2 |-> "idle"]
    /\ op = [r \in Runs2 |-> "none"]
    /\ argLimit = [r \in Runs2 |-> 0]
    /\ unlimited = [r \in Runs2 |-> FALSE]
    /\ limit = [r \in Runs2 |-> 0]
    /\ allMessages = [r \in Runs2 |-> <<>>]
    /\ cursor = [r \in Runs2 |-> NoCursor]
    /\ calls = [r \in Runs2 |-> <<>>]
    /\ resps = [r \in Runs2 |-> <<>>]
    /\ outs = [r \in Runs2 |-> <<>>]
    /\ result = [r \in Runs2 |-> <<>>]
    /\ err = [r \in Runs2 |-> NoErr]
    /\ argRef = [r \in Runs2 |-> <<>>]
    /\ name = [r \in Runs2 |-> <<>>]
    /\ argTs = [r \in Runs2 |-> <<>>]
    /\ ts = [r \in Runs2 |-> <<>>]
    /\ InitUsers

\* The cursor tokens the remote hands to one run are not those it hands to
\* the other.
PairCursor(r, k) == IF r = "r1" THEN k ELSE MaxPages + k

\* The answers the remote gives to request k of run r of the two.
PairRaw(r, k) ==
    {raw \in ListRaw(PairCursor(r, k), 1) : raw.hasList}
    \cup {f \in FailedRaw : f.kind = "neterr"}

PairCallHistory(r) == CallHistory(r) /\ argLimit'[r] \in PairLimits

PairHistoryPage(r) ==
    /\ Len(calls[r]) < PairPages
    /\ HistoryStep(r, PairRaw(r, Len(calls[r]) + 1))

PairCallThread(r) == CallThread(r) /\ argLimit'[r] \in PairLimits

PairThreadPage(r) ==
    /\ Len(calls[r]) < PairPages
    /\ ThreadStep(r, PairRaw(r, Len(calls[r]) + 1))

NextPair ==
    \/ \E r \in Runs2 : PairCallHistory(r)
    \/ \E r \in Runs2 : PairHistoryPage(r)
    \/ \E r \in Runs2 : PairCallThread(r)
    \/ \E r \in Runs2 : PairThreadPage(r)

SpecPair == InitPair /\ [][NextPair]_vars

\* ------------------------------------------------------- UserProvider
\* UsernameForID calls followed on the one UserProvider.
MaxLookups == 3

\* The "user" object of a users.info response.  A field is "" when it is
\* missing, not a string or empty; hasProfile says that "profile" is an
\* object.
InfoUsers ==
    {[hasProfile |-> hp, display_name |-> dn, profile_real_name |-> prn,
      real_name |-> rn, name |-> n, id |-> i] :
        hp \in {TRUE}, dn \in {"", "Display"}, prn \in {"", "ProfileReal"},
        rn \in {"", "Real"}, n \in {"", "handle"}, i \in {"", "U99"}}
    \cup {[hasProfile |-> hp, display_name |-> dn, profile_real_name |-> prn,
           real_name |-> rn, name |-> n, id |-> i] :
             hp \in {FALSE}, dn \in {""}, prn \in {""},
             rn \in {"", "Real"}, n \in {"", "handle"}, i \in {"", "U99"}}

NoUser ==
    [hasProfile |-> FALSE, display_name |-> "", profile_real_name |-> "",
     real_name |-> "", name |-> "", id |-> ""]

\* What the transport hands to Client.API for a users.info request: a
\* failure, or a payload with ok = true with or without a user object.
InfoRaw ==
    {[kind |-> "json", ok |-> "true", error |-> "absent", hasList |-> FALSE,
      items |-> <<>>, next |-> NoCursor, hasUser |-> TRUE, user |-> u] :
        u \in InfoUsers}
    \cup {[kind |-> "json", ok |-> "true", error |-> "absent", hasList |-> FALSE,
           items |-> <<>>, next |-> NoCursor, hasUser |-> FALSE, user |-> NoUser]}
    \cup {[kind |-> f.kind, ok |-> f.ok, error |-> f.error, hasList |-> FALSE,
           items |-> <<>>, next |-> NoCursor, hasUser |-> FALSE, user |-> NoUser] :
             f \in SearchFailedRaw}

\* resolveDisplayName picks the best display name from a user object.
resolveDisplayName(user) ==
    IF user.hasProfile /\ user.display_name # "" THEN user.display_name
    ELSE IF user.hasProfile /\ user.profile_real_name # ""
      THEN user.profile_real_name
    ELSE IF user.real_name # "" THEN user.real_name
    ELSE IF user.name # "" THEN user.name
    ELSE IF user.id # "" THEN user.id
    ELSE "unknown"

\* The name UsernameForID takes from what Client.API returned: the raw id
\* on an error or without a user object.
NameFrom(id, out) ==
    IF out.err # NoErr THEN id
    ELSE IF ~out.val.hasUser THEN id
    ELSE resolveDisplayName(out.val.user)

\* The mutex taken whoever holds it.
MuIgnored(holder) == TRUE

\* u.mu.Lock() goes through when no goroutine holds the mutex.
MuFree(holder) == holder = NoHolder

\* The fallback name of a failed call returned but not stored.
StoredOnSuccess(c, id, n, out) ==
    IF out.err # NoErr THEN c ELSE [c EXCEPT ![id] = <<n>>]

\* u.cache[id] = name, on each of the three paths.
Stored(c, id, n, out) == [c EXCEPT ![id] = <<n>>]

\* A goroutine calls UsernameForID(id) and arrives at u.mu.Lock().
CallUsernameForID(g) ==
    /\ upc[g] = "idle"
    /\ lookups < MaxLookups
    /\ \E id \in UserIDs : uid' = [uid EXCEPT ![g] = id]
    /\ upc' = [upc EXCEPT ![g] = "lock"]
    /\ lookups' = lookups + 1
    /\ UNCHANGED <<mu, cache, infoCalls, infoResps, returns>>
    /\ UNCHANGED fvars

\* u.mu.Lock() and the cache lookup: a hit returns the cached name (the
\* deferred Unlock runs); a miss issues the users.info request, the mutex
\* held.
LockAndLookup(g) ==
    /\ upc[g] = "lock"
    /\ MuFree(mu)
    /\ IF cache[uid[g]] # <<>>
         THEN /\ returns' = Append(returns, [by |-> g, id |-> uid[g],
                                             name |-> cache[uid[g]][1],
                                             err |-> NoErr, asked |-> FALSE])
              /\ upc' = [upc EXCEPT ![g] = "idle"]
              /\ UNCHANGED <<mu, infoCalls>>
         ELSE /\ mu' = g
              /\ infoCalls' = Append(infoCalls,
                                     [method |-> "users.info", user |-> uid[g],
                                      by |-> g])
              /\ upc' = [upc EXCEPT ![g] = "call"]
              /\ UNCHANGED returns
    /\ UNCHANGED <<cache, uid, lookups, infoResps>>
    /\ UNCHANGED fvars

\* users.info answers: the name is stored and returned, and the deferred
\* Unlock runs.
InfoAnswer(g) ==
    /\ upc[g] = "call"
    /\ \E raw \in InfoRaw :
         LET out == API("users.info", raw)
             n == NameFrom(uid[g], out)
         IN  /\ infoResps' = Append(infoResps,
                                    [user |-> uid[g], by |-> g, raw |-> raw])
             /\ cache' = Stored(cache, uid[g], n, out)
             /\ returns' = Append(returns, [by |-> g, id |-> uid[g], name |-> n,
                                            err |-> NoErr, asked |-> TRUE])
    /\ mu' = NoHolder
    /\ upc' = [upc EXCEPT ![g] = "idle"]
    /\ UNCHANGED <<uid, lookups, infoCalls>>
    /\ UNCHANGED fvars

NextUsers ==
    \/ \E g \in Goroutines : CallUsernameForID(g)
    \/ \E g \in Goroutines : LockAndLookup(g)
    \/ \E g \in Goroutines : InfoAnswer(g)

SpecUsers == Init /\ [][NextUsers]_vars

\* ------------------------------------------------- conversation listings
\* normalizeLimit's default and ceiling.
DefaultLimit == 100
LimitCeiling == 1000

\* The limit returned as it is above the ceiling.
normalizeLimitNoCeiling(n) == IF n <= 0 THEN DefaultLimit ELSE n

normalizeLimit(n) ==
    IF n <= 0 THEN DefaultLimit
    ELSE IF n > LimitCeiling THEN LimitCeiling
    ELSE n

DigitChars == <<"0", "1", "2", "3", "4", "5", "6", "7", "8", "9">>

\* strconv.Itoa: the decimal digits, most significant first, '-' before
\* those of a negative number.
RECURSIVE ItoaNat(_)
ItoaNat(n) ==
    IF n < 10 THEN <<DigitChars[n + 1]>>
    ELSE ItoaNat(n \div 10) \o <<DigitChars[(n % 10) + 1]>>

Itoa(n) == IF n < 0 THEN <<"-">> \o ItoaNat(-n) ELSE ItoaNat(n)

\* The limits and cursors callers pass to the listings, and the users:
\* none, a handle, a handle with the marker and blanks.
ConvLimits ==
    {-1, 0} \cup (1..MaxLimit)
    \cup {DefaultLimit, LimitCeiling - 1, LimitCeiling, LimitCeiling + 1}
ConvCursors == {NoCursor} \cup (1..MaxPages)
ConvUsers == {<<>>, NameBob, <<" ", "@">> \o NameBob \o <<" ">>}

\* What the transport answers to a listing request.
ConvRaw == DirRaw(<<NameGeneral, NameGeneralCap>>, MaxPages + 1, 1) \cup FailedRaw

\* The params map of a listing request: the keys set and their values
\* ("types" and "exclude_archived" are fixed strings).
ConvParams(method, n, user, c) ==
    [method |-> method,
     keys |-> {"limit", "types", "exclude_archived"}
              \cup (IF user # <<>> THEN {"user"} ELSE {})
              \cup (IF c # NoCursor THEN {"cursor"} ELSE {}),
     limit |-> Itoa(normalizeLimit(n)),
     user |-> IF user # <<>> THEN TrimPrefix(TrimSpace(user), <<"@">>) ELSE <<>>,
     cursor |-> c]

\* return client.API(ctx, method, params): the response or the error, as
\* Client.API returned them.
ReturnResponse(r, out) ==
    /\ pc' = [pc EXCEPT ![r] = "done"]
    /\ result' = [result EXCEPT ![r] = IF out.err = NoErr THEN <<out.val>> ELSE <<>>]
    /\ err' = [err EXCEPT ![r] = out.err]

\* ListUserConversations: the whole call, its one request included.
ListUserConversations(r) ==
    /\ pc[r] = "idle"
    /\ \E n \in ConvLimits, c \in ConvCursors, user \in ConvUsers, raw \in ConvRaw :
         LET req == ConvParams("users.conversations", n, user, c) IN
         /\ argLimit' = [argLimit EXCEPT ![r] = n]
         /\ cursor' = [cursor EXCEPT ![r] = c]
         /\ argRef' = [argRef EXCEPT ![r] = user]
         /\ Exchange(r, req, raw)
         /\ ReturnResponse(r, API(req.method, raw))
    /\ op' = [op EXCEPT ![r] = "userconvs"]
    /\ UNCHANGED <<unlimited, limit, allMessages, name, argTs, ts>>
    /\ UNCHANGED uvars

\* ListAllConversations: the whole call, its one request included.
ListAllConversations(r) ==
    /\ pc[r] = "idle"
    /\ \E n \in ConvLimits, c \in ConvCursors, raw \in ConvRaw :
         LET req == ConvParams("conversations.list", n, <<>>, c) IN
         /\ argLimit' = [argLimit EXCEPT ![r] = n]
         /\ cursor' = [cursor EXCEPT ![r] = c]
         /\ Exchange(r, req, raw)
         /\ ReturnResponse(r, API(req.method, raw))
    /\ op' = [op EXCEPT ![r] = "allconvs"]
    /\ UNCHANGED <<unlimited, limit, allMessages, argRef, name, argTs, ts>>
    /\ UNCHANGED uvars

NextConversations ==
    \/ \E r \in Runs : ListUserConversations(r)
    \/ \E r \in Runs : ListAllConversations(r)

SpecConversations == Init /\ [][NextConversations]_vars

\* ------------------------------------------------- vocabulary of the claims
\* The well-formed (key-value) records in one response.
NumMaps(raw) == Cardinality({i \in DOMAIN raw.items : raw.items[i].kind = "map"})

\* The well-formed records in the first k responses to run r.
RECURSIVE CollectedAfter(_, _)
CollectedAfter(r, k) ==
    IF k = 0 THEN 0 ELSE NumMaps(resps[r][k]) + CollectedAfter(r, k - 1)

\* The (response, index) places of the well-formed records delivered to r.
DeliveredPlaces(r) ==
    UNION {{<<k, i>> : i \in {i \in DOMAIN resps[r][k].items :
                                resps[r][k].items[i].kind = "map"}} :
           k \in DOMAIN resps[r]}

\* A transport failure, an undecodable body or a payload without ok = true.
FailedCall(raw) == raw.kind # "json" \/ raw.ok # "true"

Returned(r, o) == pc[r] = "done" /\ op[r] = o
Succeeded(r, o) == Returned(r, o) /\ err[r] = NoErr

LastResp(r) == resps[r][Len(resps[r])]

\* The totals T the remote may hold, given what run r has seen of it: what
\* it delivered when its last page carried no cursor, that or more otherwise.
Totals(r) ==
    LET n == CollectedAfter(r, Len(resps[r])) IN
    IF resps[r] # <<>> /\ LastResp(r).next = NoCursor
      THEN {n} ELSE n..(n + MaxStore)

\* ---------------------------------------------------------------- claims

\* C1: for a limit N > 0, when every page returned at most the requested
\* number of entries, ListChannelHistory returns exactly min(N, T) records,
\* T being the number of well-formed records the remote holds.
C1_HistoryLengthIsMinLimitTotal ==
    \A r \in Runs :
      (/\ Succeeded(r, "history")
       /\ argLimit[r] > 0
       /\ \A k \in DOMAIN resps[r] : Len(resps[r][k].items) <= calls[r][k].limit)
      => \A T \in Totals(r) : Len(result[r]) = Min(argLimit[r], T)

\* C1 witness: a bounded fetch over two pages, each within the requested
\* size, that returned exactly N records.
C1_Witness ==
    \E r \in Runs :
      /\ Succeeded(r, "history")
      /\ argLimit[r] = 2
      /\ Len(calls[r]) = 2
      /\ \A k \in DOMAIN resps[r] : Len(resps[r][k].items) <= calls[r][k].limit
      /\ Len(result[r]) = 2

\* C2: for a limit N > 0 the number of records ListThread returns never
\* exceeds N, whatever cursors the pages carry.
C2_ThreadNeverExceedsLimit ==
    \A r \in Runs :
      (Succeeded(r, "thread") /\ argLimit[r] > 0)
      => Len(result[r]) <= argLimit[r]

\* C3: with limit <= 0 ListChannelHistory stops only at a response without
\* a continuation cursor, never because of a record count, and returns
\* every well-formed record of every page received.
C3_UnlimitedHistoryReadsToTheEnd ==
    \A r \in Runs :
      (op[r] = "history" /\ argLimit[r] <= 0)
      => /\ \A k \in DOMAIN calls[r] :
              k > 1 => resps[r][k - 1].next # NoCursor
         /\ Succeeded(r, "history")
              => /\ resps[r] # <<>>
                 /\ LastResp(r).next = NoCursor
                 /\ Len(result[r]) = CollectedAfter(r, Len(resps[r]))
                 /\ {result[r][i].src : i \in DOMAIN result[r]} = DeliveredPlaces(r)

\* C3 witness: an unlimited fetch that followed two cursors and returned
\* the records of all three pages.
C3_Witness ==
    \E r \in Runs :
      /\ Succeeded(r, "history")
      /\ argLimit[r] <= 0
      /\ Len(calls[r]) = 3
      /\ Len(result[r]) = 3

\* C4: every request of ListChannelHistory carries the limit
\* min(200, N - collected) when N > 0 and 200 when N <= 0, collected being
\* the records accumulated before the request; it is never <= 0.
C4_HistoryRequestSize ==
    \A r \in Runs :
      op[r] = "history"
      => \A k \in DOMAIN calls[r] :
           /\ calls[r][k].limit > 0
           /\ calls[r][k].limit =
                IF argLimit[r] > 0
                  THEN Min(PageCeiling, argLimit[r] - CollectedAfter(r, k - 1))
                  ELSE PageCeiling

\* C4 witness: with N above the ceiling the first request asks for the
\* ceiling and, two records later, the next one for the remainder.
C4_Witness ==
    \E r \in Runs :
      /\ op[r] = "history"
      /\ argLimit[r] = PageCeiling + 1
      /\ Len(calls[r]) >= 2
      /\ calls[r][1].limit = PageCeiling
      /\ calls[r][2].limit = PageCeiling - 1

\* The requests of the four pagination loops.
Paginated ==
    {"conversations.history", "conversations.replies", "conversations.list",
     "users.list"}

\* C5: in every pagination loop the first request carries no cursor and
\* request k+1 carries exactly the non-empty cursor response k returned;
\* no cursor is sent twice.
C5_CursorChain ==
    \A r \in Runs :
      \A k \in DOMAIN calls[r] :
        calls[r][k].method \in Paginated
        => /\ IF k = 1 \/ calls[r][k - 1].method \notin Paginated
                THEN calls[r][k].cursor = NoCursor
                ELSE /\ calls[r][k].cursor = resps[r][k - 1].next
                     /\ calls[r][k].cursor # NoCursor
           /\ \A j \in DOMAIN calls[r] :
                (j < k /\ calls[r][j].method \in Paginated)
                => calls[r][j].cursor # calls[r][k].cursor

\* C5 witness: resolveViaPagination, entered after the search, has sent no
\* cursor with its first request and the returned cursor with its second.
C5_Witness ==
    \E r \in Runs :
      /\ op[r] = "channel"
      /\ Len(calls[r]) = 3
      /\ calls[r][2].method = "conversations.list"
      /\ calls[r][2].cursor = NoCursor
      /\ calls[r][3].cursor = resps[r][2].next
      /\ calls[r][3].cursor # NoCursor

\* C6: in ListChannelHistory with N > 0, once N or more records are
\* accumulated after a page no further request is issued, cursor or not,
\* and the aggregate returned is cut to N.
C6_HistoryStopsAtLimit ==
    \A r \in Runs :
      (op[r] = "history" /\ argLimit[r] > 0)
      => /\ \A k \in DOMAIN calls[r] : CollectedAfter(r, k - 1) < argLimit[r]
         /\ (Succeeded(r, "history")
             /\ CollectedAfter(r, Len(resps[r])) >= argLimit[r])
              => Len(result[r]) = argLimit[r]

\* C6 witness: the page that passed the limit carried a continuation
\* cursor, and the fetch returned N records without another request.
C6_Witness ==
    \E r \in Runs :
      /\ Succeeded(r, "history")
      /\ argLimit[r] = 1
      /\ Len(calls[r]) = 1
      /\ LastResp(r).next # NoCursor
      /\ CollectedAfter(r, 1) = 2
      /\ Len(result[r]) = 1

\* The ts token a record is ordered by: its string ts, or "" (rank 0).
Token(m) == IF m.hasTs THEN m.ts ELSE 0

\* C7: what ListChannelHistory and ListThread return is non-decreasing in
\* the ts token, a record without a string ts counting as the empty token.
C7_ResultIsChronological ==
    \A r \in Runs :
      (Succeeded(r, "history") \/ Succeeded(r, "thread"))
      => \A i, j \in DOMAIN result[r] :
           i < j => Token(result[r][i]) <= Token(result[r][j])

\* C7 witness: three records were aggregated, one without a ts between two
\* with a ts, and the one without a ts is returned first.
C7_Witness ==
    \E r \in Runs :
      /\ Succeeded(r, "thread")
      /\ Len(allMessages[r]) = 3
      /\ allMessages[r][1].hasTs
      /\ ~allMessages[r][2].hasTs
      /\ allMessages[r][3].hasTs
      /\ result[r][1] = allMessages[r][2]
      /\ result[r][2].hasTs /\ result[r][3].hasTs

\* The place of record m in the aggregate of run r.
PlaceIn(r, m) == CHOOSE i \in DOMAIN allMessages[r] : allMessages[r][i] = m

\* C8: the sort is stable: two returned records with the same ts token
\* keep the relative order they had in the aggregate.
C8_SortIsStable ==
    \A r \in Runs :
      (Succeeded(r, "history") \/ Succeeded(r, "thread"))
      => \A i, j \in DOMAIN result[r] :
           (i < j /\ Token(result[r][i]) = Token(result[r][j]))
           => PlaceIn(r, result[r][i]) < PlaceIn(r, result[r][j])

\* C9: when a page request of ListChannelHistory or ListThread fails, the
\* operation returns an error and no records, and the failed request is the
\* last request it issued.
C9_FailureAbortsTheFetch ==
    \A r \in Runs :
      op[r] \in {"history", "thread"}
      => \A k \in DOMAIN resps[r] :
           FailedCall(resps[r][k])
           => /\ pc[r] = "done"
              /\ err[r] # NoErr
              /\ result[r] = <<>>
              /\ Len(calls[r]) = k

\* C9 witness: the second request failed after the first page had
\* delivered records.
C9_Witness ==
    \E r \in Runs :
      /\ Returned(r, "history")
      /\ Len(calls[r]) = 2
      /\ FailedCall(resps[r][2])
      /\ allMessages[r] # <<>>
      /\ err[r] # NoErr

\* C10: Client.API returns an error and no result when the transport call
\* fails and when ok is false or absent, the error then carrying the
\* payload's error string, or "unknown error" when that is missing or
\* empty; it returns the decoded response only when ok is true.
C10_APIErrorOrDecodedResponse ==
    \A r \in Runs :
      \A k \in DOMAIN outs[r] :
        LET raw == resps[r][k]
            out == outs[r][k]
        IN  /\ raw.kind = "neterr" => (out.err # NoErr /\ out.val = NilResp)
            /\ (raw.kind = "json" /\ raw.ok # "true")
                 => /\ out.val = NilResp
                    /\ out.err # NoErr
                    /\ out.err[Len(out.err)] =
                         IF raw.error \in {"absent", ""}
                           THEN "unknown error" ELSE raw.error
            /\ out.err = NoErr
                 => (raw.kind = "json" /\ raw.ok = "true" /\ out.val = raw)
            /\ out.err # NoErr => out.val = NilResp

\* C10 witness: a payload without an ok flag and with an empty error
\* string was turned into the error "unknown error".
C10_Witness ==
    \E r \in Runs :
      \E k \in DOMAIN outs[r] :
        /\ resps[r][k].kind = "json"
        /\ resps[r][k].ok = "absent"
        /\ resps[r][k].error = ""
        /\ outs[r][k].err = <<"slack API", calls[r][k].method, "unknown error">>

\* A search.messages answer that carries a usable channel id: a decoded
\* payload with ok = true whose first match holds a channel object with a
\* non-empty id.
SearchFound(raw) ==
    /\ ~FailedCall(raw)
    /\ raw.hasList
    /\ raw.items # <<>>
    /\ raw.items[1].kind = "map"
    /\ raw.items[1].hasChannel
    /\ raw.items[1].id # <<>>

\* C11: ResolveChannelID given an input that matches the channel-ID
\* pattern, and ResolveUserID given an input that matches the user-ID
\* pattern, return that input and issue no remote call at all.
C11_CanonicalIDNeedsNoCall ==
    \A r \in Runs :
      (\/ op[r] = "channel" /\ MatchChannelID(argRef[r])
       \/ op[r] = "user" /\ MatchUserID(argRef[r]))
      => /\ pc[r] = "done"
         /\ err[r] = NoErr
         /\ result[r] = argRef[r]
         /\ calls[r] = <<>>

\* C11 witness: ResolveChannelID was called with a channel ID and has
\* returned it without a request.
C11_Witness ==
    \E r \in Runs :
      /\ Succeeded(r, "channel")
      /\ argRef[r] = ChanID
      /\ result[r] = ChanID
      /\ calls[r] = <<>>

\* C12: in a run of ResolveChannelID no conversations.list request follows
\* a search.messages answer that carried a non-empty channel id, and no
\* search.messages request is issued for an input that is a canonical ID.
C12_NoScanAfterHitNoSearchForID ==
    \A r \in Runs :
      op[r] = "channel"
      => /\ \A k \in DOMAIN calls[r] :
              (calls[r][k].method = "search.messages" /\ SearchFound(resps[r][k]))
              => \A j \in DOMAIN calls[r] :
                   j > k => calls[r][j].method # "conversations.list"
         /\ MatchChannelID(TrimSpace(argRef[r]))
              => \A k \in DOMAIN calls[r] : calls[r][k].method # "search.messages"

\* C12 witness: the search answered with a channel id and the run has
\* returned that id after this one request.
C12_Witness ==
    \E r \in Runs :
      /\ Succeeded(r, "channel")
      /\ Len(calls[r]) = 1
      /\ calls[r][1].method = "search.messages"
      /\ SearchFound(resps[r][1])
      /\ result[r] = resps[r][1].items[1].id

\* C13: for a reference made of a leading '#' and a string that matches
\* the channel-ID pattern, ResolveChannelID returns the string after the
\* marker at once, without a remote call.
C13_MarkedIDReturnedAtOnce ==
    \A r \in Runs :
      (/\ op[r] = "channel"
       /\ HasPrefix(argRef[r], <<"#">>)
       /\ MatchChannelID(Tail(argRef[r])))
      => /\ calls[r] = <<>>
         /\ pc[r] = "done" => (err[r] = NoErr /\ result[r] = Tail(argRef[r]))

\* The entries of a listing response that are records named n, and those
\* among them that carry a non-empty id.
Named(raw, n) ==
    {i \in DOMAIN raw.items : raw.items[i].kind = "map" /\ raw.items[i].name = n}

NamedWithID(raw, n) == {i \in Named(raw, n) : raw.items[i].id # <<>>}

First(S) == CHOOSE i \in S : \A j \in S : i <= j

\* Run r has returned what a scan of the listing method for the name n
\* returns after its last response: the wrapped failure of the request,
\* the id of the first record named n that has one, or, after a page
\* without cursor, the error notFound followed by n.
ScanResult(r, method, n, notFound) ==
    LET last == LastResp(r) IN
    /\ calls[r][Len(calls[r])].method = method
    /\ IF FailedCall(last)
         THEN result[r] = <<>> /\ err[r] # NoErr /\ err[r][1] = method
       ELSE IF NamedWithID(last, n) # {}
         THEN err[r] = NoErr /\ result[r] = last.items[First(NamedWithID(last, n))].id
       ELSE /\ last.next = NoCursor
            /\ result[r] = <<>>
            /\ err[r] = <<notFound>> \o n

\* C14: whenever the search.messages call fails or its answer carries no
\* usable channel id, ResolveChannelID goes on to conversations.list, every
\* later request is a conversations.list request, and what it returns is
\* what that scan returns.
C14_SearchMissFallsBackToScan ==
    \A r \in Runs :
      (/\ op[r] = "channel"
       /\ calls[r] # <<>>
       /\ calls[r][1].method = "search.messages"
       /\ ~SearchFound(resps[r][1]))
      => /\ pc[r] \in {"loop", "done"}
         /\ \A k \in DOMAIN calls[r] :
              k > 1 => calls[r][k].method = "conversations.list"
         /\ pc[r] = "done"
              => /\ Len(calls[r]) >= 2
                 /\ ScanResult(r, "conversations.list", name[r],
                               "could not resolve channel name: #")

\* C14 witness: the search failed, the first conversations.list page held
\* the channel, and its id was returned.
C14_Witness ==
    \E r \in Runs :
      /\ Succeeded(r, "channel")
      /\ Len(calls[r]) = 2
      /\ FailedCall(resps[r][1])
      /\ calls[r][2].method = "conversations.list"
      /\ NamedWithID(resps[r][2], name[r]) # {}
      /\ result[r] # <<>>

\* The conversations.list requests of run r that were answered with a page.
ListedPages(r, method) ==
    {k \in DOMAIN calls[r] : calls[r][k].method = method /\ ~FailedCall(resps[r][k])}

\* C15, as stated: the channel scan returns the id of the first entry, in
\* page order, whose name equals the searched name, and requests no page
\* after the one that holds it; when every page up to the one without
\* cursor holds no entry of that name it fails with the not-found error
\* that names the channel.
C15_ScanReturnsFirstNamed ==
    \A r \in Runs :
      op[r] = "channel"
      => /\ \A k \in ListedPages(r, "conversations.list") :
              Named(resps[r][k], name[r]) # {}
              => /\ Len(calls[r]) = k
                 /\ pc[r] = "done"
                      => /\ err[r] = NoErr
                         /\ result[r] =
                              resps[r][k].items[First(Named(resps[r][k], name[r]))].id
         /\ (/\ pc[r] = "done"
             /\ Len(calls[r]) \in ListedPages(r, "conversations.list")
             /\ LastResp(r).next = NoCursor
             /\ \A k \in ListedPages(r, "conversations.list") :
                  Named(resps[r][k], name[r]) = {})
              => /\ result[r] = <<>>
                 /\ err[r] = <<"could not resolve channel name: #">> \o name[r]

\* C15, amended: the same with "entry whose name equals the searched name
\* and whose id is a non-empty string" in place of "entry whose name
\* equals the searched name".
C15_ScanReturnsFirstNamedWithID ==
    \A r \in Runs :
      op[r] = "channel"
      => /\ \A k \in ListedPages(r, "conversations.list") :
              NamedWithID(resps[r][k], name[r]) # {}
              => /\ Len(calls[r]) = k
                 /\ pc[r] = "done"
                 /\ err[r] = NoErr
                 /\ result[r] =
                      resps[r][k].items[First(NamedWithID(resps[r][k], name[r]))].id
         /\ (/\ pc[r] = "done"
             /\ Len(calls[r]) \in ListedPages(r, "conversations.list")
             /\ LastResp(r).next = NoCursor
             /\ \A k \in ListedPages(r, "conversations.list") :
                  NamedWithID(resps[r][k], name[r]) = {})
              => /\ result[r] = <<>>
                 /\ err[r] = <<"could not resolve channel name: #">> \o name[r]

\* C15 witness: the page held an entry of the searched name without an id,
\* then two of that name with different ids, and the id of the first of
\* these two was returned.
C15_Witness ==
    \E r \in Runs :
      /\ Succeeded(r, "channel")
      /\ calls[r] # <<>>
      /\ calls[r][Len(calls[r])].method = "conversations.list"
      /\ Len(LastResp(r).items) = 3
      /\ Named(LastResp(r), name[r]) = {1, 2, 3}
      /\ NamedWithID(LastResp(r), name[r]) = {2, 3}
      /\ LastResp(r).items[2].id # LastResp(r).items[3].id
      /\ result[r] = LastResp(r).items[2].id

\* The handle a caller passed to ResolveUserID, without the surrounding
\* whitespace and without one leading '@'.
Handle(r) ==
    LET t == TrimSpace(argRef[r]) IN
    IF t # <<>> /\ Head(t) = "@" THEN Tail(t) ELSE t

\* Run r has issued nothing but users.list requests of limit 200, the
\* first without cursor and each later one with the non-empty cursor of
\* the response before it.
OnlyUsersListChained(r) ==
    \A k \in DOMAIN calls[r] :
      /\ calls[r][k].method = "users.list"
      /\ calls[r][k].limit = 200
      /\ IF k = 1 THEN calls[r][k].cursor = NoCursor
         ELSE /\ calls[r][k].cursor = resps[r][k - 1].next
              /\ calls[r][k].cursor # NoCursor

Digits == {"0", "1", "2", "3", "4", "5", "6", "7", "8", "9"}

\* The token is made of exactly 16 decimal digits.
SixteenDigits(t) == Len(t) = 16 /\ \A i \in DOMAIN t : t[i] \in Digits

\* Run r is a call of one of the two operations that take a timestamp.
TakesTimestamp(r) == op[r] \in {"message", "thread"}

\* C17: NormalizeTimestamp returns a token that contains '.' unchanged,
\* turns a token of 16 digits into its first 10 digits, '.', and its last
\* 6 digits, and returns a shorter token and the empty token unchanged.
C17_NormalizeTimestampShapes ==
    \A r \in Runs :
      TakesTimestamp(r)
      => /\ Contains(argTs[r], ".") => ts[r] = argTs[r]
         /\ SixteenDigits(argTs[r])
              => ts[r] = <<argTs[r][1], argTs[r][2], argTs[r][3], argTs[r][4],
                           argTs[r][5], argTs[r][6], argTs[r][7], argTs[r][8],
                           argTs[r][9], argTs[r][10], ".",
                           argTs[r][11], argTs[r][12], argTs[r][13],
                           argTs[r][14], argTs[r][15], argTs[r][16]>>
         /\ (Len(argTs[r]) < 16 /\ ~Contains(argTs[r], "."))
              => ts[r] = argTs[r]

\* C17 witness: GetMessage was called with the 16 digits 1772147524763449
\* and its local ts is 1772147524.763449.
C17_Witness ==
    \E r \in Runs :
      /\ op[r] = "message"
      /\ argTs[r] = Ts16
      /\ ts[r] = <<"1", "7", "7", "2", "1", "4", "7", "5", "2", "4", ".",
                   "7", "6", "3", "4", "4", "9">>

\* C18: NormalizeTimestamp leaves unchanged every token that has no
\* separator and is not made of exactly 16 digits, a token of 16
\* characters with a non-digit among them included.
C18_OtherTokensUnchanged ==
    \A r \in Runs :
      (/\ TakesTimestamp(r)
       /\ ~Contains(argTs[r], ".")
       /\ ~SixteenDigits(argTs[r]))
      => ts[r] = argTs[r]

\* C19: the latest and oldest parameters of GetMessage's request, and the
\* ts parameter of every request of ListThread, are NormalizeTimestamp of
\* the token the caller passed.
C19_RequestsCarryNormalizedTs ==
    \A r \in Runs :
      \A k \in DOMAIN calls[r] :
        /\ op[r] = "message"
             => /\ calls[r][k].latest = NormalizeTimestamp(argTs[r])
                /\ calls[r][k].oldest = NormalizeTimestamp(argTs[r])
        /\ op[r] = "thread" => calls[r][k].ts = NormalizeTimestamp(argTs[r])

\* C19 witness: ListThread, called with a token of 16 digits, has sent two
\* requests, both with the separated token.
C19_Witness ==
    \E r \in Runs :
      /\ op[r] = "thread"
      /\ argTs[r] = Ts16
      /\ Len(calls[r]) = 2
      /\ calls[r][1].ts = TsDotted
      /\ calls[r][2].ts = TsDotted

\* C20: GetMessage issues exactly one request, of limit 1.  When the
\* response holds no entry it returns no result and the not-found error
\* for the requested timestamp.  When its first entry is a key-value
\* record it returns that record, with a thread summary if and only if the
\* record's reply_count is a number > 0; the summary's ts is the record's
\* thread_ts or, when that is empty, the timestamp requested, and its
\* length is the reply count.  In every other case it returns an error and
\* no result.
C20_GetMessageResult ==
    \A r \in Runs :
      op[r] = "message"
      => LET raw == resps[r][1]
             req == calls[r][1]
         IN  /\ pc[r] = "done"
             /\ Len(calls[r]) = 1
             /\ req.method = "conversations.history"
             /\ req.limit = 1
             /\ IF FailedCall(raw)
                  THEN result[r] = <<>> /\ err[r] # NoErr
                ELSE IF raw.items = <<>>
                  THEN /\ result[r] = <<>>
                       /\ err[r] = <<"message not found at ts=">> \o req.latest
                ELSE IF raw.items[1].kind # "map"
                  THEN result[r] = <<>> /\ err[r] # NoErr
                ELSE LET m == raw.items[1] IN
                     /\ err[r] = NoErr
                     /\ Len(result[r]) = 1
                     /\ result[r][1].Message = m
                     /\ result[r][1].Thread # <<>> <=> (m.hasCount /\ m.count > 0)
                     /\ result[r][1].Thread # <<>>
                          => /\ Len(result[r][1].Thread) = 1
                             /\ result[r][1].Thread[1].length = m.count
                             /\ result[r][1].Thread[1].ts =
                                  IF m.threadTs # <<>> THEN m.threadTs ELSE req.latest

\* C20 witness: asked for 1772147524763449, the remote answered a message
\* with two replies and no thread_ts, and GetMessage returned it with the
\* summary (1772147524.763449, 2).
C20_Witness ==
    \E r \in Runs :
      /\ Succeeded(r, "message")
      /\ argTs[r] = Ts16
      /\ resps[r][1].items[1].threadTs = <<>>
      /\ result[r][1].Message = resps[r][1].items[1]
      /\ result[r][1].Thread = <<[ts |-> TsDotted, length |-> 2]>>

\* Run r is a call of one of the two paginated fetches.
Fetches(r) == op[r] \in {"history", "thread"}

\* C21: when a successful list response lacks the record list (no
\* "messages" field, or one that is not a list), ListChannelHistory and
\* ListThread fail with an error; the response is never taken for an empty
\* page, neither to go on to the next page nor to return successfully.
C21_MissingListIsAnError ==
    \A r \in Runs :
      Fetches(r)
      => \A k \in DOMAIN resps[r] :
           (~FailedCall(resps[r][k]) /\ ~resps[r][k].hasList)
           => /\ Len(calls[r]) = k
              /\ pc[r] = "done" => err[r] # NoErr

\* The places (response, index) of the key-value records among the first n
\* responses to run r, in the order the remote delivered them.
RECURSIVE KeptPlaces(_, _)
KeptPlaces(r, n) ==
    IF n = 0 THEN <<>>
    ELSE KeptPlaces(r, n - 1)
         \o SelectSeq([i \in 1..Len(resps[r][n].items) |-> <<n, i>>],
                      LAMBDA p : resps[r][n].items[p[2]].kind = "map")

\* The entry the remote delivered at place p.
EntryAt(r, p) == resps[r][p[1]].items[p[2]]

\* C22: an entry that is not a key-value record is skipped.  The
\* aggregate holds key-value records only, in delivery order and as
\* delivered; a further page is requested while fewer key-value records
\* than the limit are collected and the run stops at a page that carries a
\* cursor only when that many are, whatever else the pages held; and a
\* run none of whose calls failed returns without error.
C22_NonRecordsAreSkipped ==
    \A r \in Runs :
      Fetches(r)
      => /\ Len(allMessages[r]) <= Len(KeptPlaces(r, Len(resps[r])))
         /\ \A i \in DOMAIN allMessages[r] :
              LET p == KeptPlaces(r, Len(resps[r]))[i] IN
              /\ allMessages[r][i].src = p
              /\ allMessages[r][i].hasTs = EntryAt(r, p).hasTs
              /\ allMessages[r][i].ts = EntryAt(r, p).ts
         /\ pc[r] = "loop"
              => Len(allMessages[r]) = Len(KeptPlaces(r, Len(resps[r])))
         /\ \A k \in DOMAIN calls[r] :
              (k > 1 /\ argLimit[r] > 0) => CollectedAfter(r, k - 1) < argLimit[r]
         /\ (pc[r] = "done" /\ resps[r] # <<>> /\ ~FailedCall(LastResp(r))
             /\ LastResp(r).next # NoCursor)
              => /\ argLimit[r] > 0
                 /\ CollectedAfter(r, Len(resps[r])) >= argLimit[r]
         /\ (pc[r] = "done" /\ \A k \in DOMAIN resps[r] : ~FailedCall(resps[r][k]))
              => err[r] = NoErr

\* C22 witness: with limit 1 the first page held two entries, neither a
\* key-value record, so a second page was requested; it held another such
\* entry between two records, and the first of the two was returned.
C22_Witness ==
    \E r \in Runs :
      /\ Succeeded(r, "history")
      /\ argLimit[r] = 1
      /\ Len(calls[r]) = 2
      /\ Len(resps[r][1].items) = 1
      /\ resps[r][1].items[1].kind = "other"
      /\ Len(resps[r][2].items) = 2
      /\ resps[r][2].items[1].kind = "other"
      /\ resps[r][2].items[2].kind = "map"
      /\ Len(result[r]) = 1
      /\ result[r][1].src = <<2, 2>>

\* C23, as stated: in every operation a failed remote call (transport
\* failure or a payload without ok = true) is the last call the operation
\* issues, and the operation returns an error.
C23_FailedCallAborts ==
    \A r \in Runs :
      \A k \in DOMAIN resps[r] :
        FailedCall(resps[r][k])
        => /\ Len(calls[r]) = k
           /\ pc[r] = "done" => err[r] # NoErr

\* C23, amended: the same for every call but the search.messages call of
\* ResolveChannelID, whose failure leads to the conversations.list scan:
\* the failed call is the last one, and the operation has returned an
\* error and no result.
C23_FailedCallAbortsButSearch ==
    \A r \in Runs :
      \A k \in DOMAIN resps[r] :
        (FailedCall(resps[r][k]) /\ calls[r][k].method # "search.messages")
        => /\ Len(calls[r]) = k
           /\ pc[r] = "done"
           /\ err[r] # NoErr
           /\ result[r] = <<>>

\* C23 witness: ResolveChannelID's search failed, the scan went on to a
\* second conversations.list page, that call failed, and the operation
\* returned the error.
C23_Witness ==
    \E r \in Runs :
      /\ Returned(r, "channel")
      /\ Len(calls[r]) = 3
      /\ FailedCall(resps[r][1])
      /\ ~FailedCall(resps[r][2])
      /\ FailedCall(resps[r][3])
      /\ err[r] # NoErr
      /\ err[r][1] = "conversations.list"

\* C24: every request ListThread issues carries the limit 200, whatever
\* limit the caller passed and however many records are collected.
C24_ThreadRequestsAskForCeiling ==
    \A r \in Runs :
      op[r] = "thread"
      => \A k \in DOMAIN calls[r] :
           /\ calls[r][k].method = "conversations.replies"
           /\ calls[r][k].limit = 200

\* C24 witness: called with limit 2, ListThread had collected one record
\* when it sent its second request, again for 200.
C24_Witness ==
    \E r \in Runs :
      /\ op[r] = "thread"
      /\ argLimit[r] = 2
      /\ Len(calls[r]) = 2
      /\ CollectedAfter(r, 1) = 1
      /\ calls[r][1].limit = 200
      /\ calls[r][2].limit = 200

\* What a fetch running alone has done after the answers rs: the requests
\* sent, the aggregate, the cursor, whether it has returned, and the error.
\* o is the operation, n the limit and t the timestamp the caller passed.
RECURSIVE Alone(_, _, _, _)
Alone(o, n, t, rs) ==
    IF rs = <<>>
      THEN [pc |-> "loop", all |-> <<>>, cursor |-> NoCursor, calls |-> <<>>,
            err |-> NoErr]
    ELSE
      LET s == Alone(o, n, t, SubSeq(rs, 1, Len(rs) - 1))
          raw == rs[Len(rs)]
          unl == n <= 0
          lim == IF o = "history" /\ unl THEN 0 ELSE n
          req == IF o = "history"
                   THEN [method |-> "conversations.history",
                         limit |-> PageSize(unl, lim, Len(s.all)),
                         cursor |-> s.cursor]
                   ELSE [method |-> "conversations.replies",
                         ts |-> NormalizeTimestamp(t),
                         limit |-> ThreadPageSize(lim, Len(s.all)),
                         cursor |-> s.cursor]
          out == API(req.method, raw)
          acc == s.all \o Messages(out.val, Len(rs))
          stop == IF o = "history"
                    THEN HistoryStop(unl, lim, Len(acc), out.val.next)
                    ELSE ThreadStop(lim, Len(acc), out.val.next)
          sent == Append(s.calls, req)
      IN  IF out.err # NoErr
            THEN [pc |-> "done", all |-> s.all, cursor |-> s.cursor,
                  calls |-> sent, err |-> Wrap(req.method, out.err)]
          ELSE IF stop = "limit"
            THEN [pc |-> "done", all |-> Truncate(acc, lim), cursor |-> s.cursor,
                  calls |-> sent, err |-> NoErr]
          ELSE IF stop = "end"
            THEN [pc |-> "done", all |-> acc, cursor |-> s.cursor,
                  calls |-> sent, err |-> NoErr]
          ELSE [pc |-> "loop", all |-> acc, cursor |-> out.val.next,
                calls |-> sent, err |-> NoErr]

\* C25: of two ListChannelHistory or ListThread runs executing
\* concurrently, under every interleaving of their page requests, each has
\* sent the requests, holds the cursor and the aggregate, and returns a
\* result that it would running alone on the answers it received.
C25_ConcurrentRunsAreIndependent ==
    \A r \in Runs2 :
      op[r] \in {"history", "thread"}
      => LET a == Alone(op[r], argLimit[r], argTs[r], resps[r]) IN
         /\ calls[r] = a.calls
         /\ cursor[r] = a.cursor
         /\ allMessages[r] = a.all
         /\ pc[r] = a.pc
         /\ err[r] = a.err
         /\ pc[r] = "done"
              => IF a.err = NoErr THEN result[r] \in SortSlice(a.all)
                                  ELSE result[r] = <<>>

\* C25 witness: a ListChannelHistory run that received its first page
\* after a ListThread run had already received one and was still in its
\* loop has gone on to return the records of its two pages, while the
\* ListThread run holds its own cursor and its own, different aggregate.
C25_Witness ==
    /\ op["r1"] = "history" /\ op["r2"] = "thread"
    /\ pc["r1"] = "done" /\ err["r1"] = NoErr
    /\ Len(calls["r1"]) = 2 /\ Len(result["r1"]) = 2
    /\ pc["r2"] = "loop"
    /\ Len(calls["r2"]) = 1
    /\ cursor["r2"] # NoCursor
    /\ Len(allMessages["r2"]) = 1
    /\ allMessages["r2"][1] # result["r1"][1]
    /\ allMessages["r2"][1] # result["r1"][2]

\* C26: for a limit N > 0 the records ListChannelHistory returns are, as
\* a multiset, exactly the first min(N, T) key-value records in the order
\* the remote delivered them across pages, each as delivered; the sort
\* drops, repeats and invents none.  (T is what the remote delivered when
\* the last page carried no cursor and at least N otherwise.)
C26_HistoryReturnsFirstRecords ==
    \A r \in Runs :
      (Succeeded(r, "history") /\ argLimit[r] > 0)
      => LET kept == KeptPlaces(r, Len(resps[r]))
             n == Min(argLimit[r], Len(kept))
         IN  /\ Len(result[r]) = n
             /\ {result[r][i].src : i \in DOMAIN result[r]}
                  = {kept[j] : j \in 1..n}
             /\ \A i \in DOMAIN result[r] :
                  /\ result[r][i].hasTs = EntryAt(r, result[r][i].src).hasTs
                  /\ result[r][i].ts = EntryAt(r, result[r][i].src).ts
             /\ LastResp(r).next # NoCursor => Len(kept) >= argLimit[r]

\* C26 witness: with limit 1 one page delivered a record with a ts and
\* then a record without one, which sorts before it; the record delivered
\* first is the one returned.
C26_Witness ==
    \E r \in Runs :
      /\ Succeeded(r, "history")
      /\ argLimit[r] = 1
      /\ Len(calls[r]) = 1
      /\ Len(resps[r][1].items) = 2
      /\ resps[r][1].items[1].kind = "map"
      /\ resps[r][1].items[1].hasTs
      /\ resps[r][1].items[2].kind = "map"
      /\ ~resps[r][1].items[2].hasTs
      /\ result[r] = <<[hasTs |-> TRUE, ts |-> resps[r][1].items[1].ts,
                        src |-> <<1, 1>>]>>

\* After response k, ListThread goes on to request k + 1: the response
\* carried a continuation cursor and the limit is <= 0 or above the number
\* of records accumulated so far.
ThreadGoesOn(r, k) ==
    /\ resps[r][k].next # NoCursor
    /\ argLimit[r] <= 0 \/ CollectedAfter(r, k) < argLimit[r]

\* C27: ListThread issues request k + 1 if and only if response k (of a
\* call that did not fail) carried a non-empty continuation cursor and the
\* limit is <= 0 or fewer than limit records are accumulated so far; so
\* it stops after the first response without a cursor.  A run still in
\* its loop is about to issue its next request.
C27_ThreadNextRequest ==
    \A r \in Runs :
      op[r] = "thread"
      => /\ \A k \in DOMAIN calls[r] : k > 1 => ThreadGoesOn(r, k - 1)
         /\ (pc[r] = "loop" /\ resps[r] # <<>>)
              => ThreadGoesOn(r, Len(resps[r]))
         /\ (pc[r] = "done" /\ ~FailedCall(LastResp(r)))
              => ~ThreadGoesOn(r, Len(resps[r]))
         /\ \A k \in DOMAIN resps[r] :
              resps[r][k].next = NoCursor => k = Len(resps[r]) /\ pc[r] = "done"

\* C27 witness: with limit 1 the first page carried a cursor and no
\* record, so a second request went out; the second page carried a cursor
\* and a record, and no third request followed.
C27_Witness ==
    \E r \in Runs :
      /\ Succeeded(r, "thread")
      /\ argLimit[r] = 1
      /\ Len(calls[r]) = 2
      /\ resps[r][1].next # NoCursor
      /\ CollectedAfter(r, 1) = 0
      /\ resps[r][2].next # NoCursor
      /\ CollectedAfter(r, 2) = 1

\* The search.messages response holds a match whose channel object has a
\* non-empty id.
SomeMatchHasID(raw) ==
    /\ ~FailedCall(raw)
    /\ raw.hasList
    /\ \E i \in DOMAIN raw.items :
         raw.items[i].kind = "map" /\ raw.items[i].hasChannel
         /\ raw.items[i].id # <<>>

\* The run of ResolveChannelID has searched.
Searched(r) ==
    op[r] = "channel" /\ calls[r] # <<>> /\ calls[r][1].method = "search.messages"

\* C28, as stated: when the search.messages response holds at least one
\* match whose channel object has a non-empty id, ResolveChannelID returns
\* the id of the first match after exactly one remote call.
C28_AnyMatchWithIDIsTrusted ==
    \A r \in Runs :
      (Searched(r) /\ SomeMatchHasID(resps[r][1]))
      => /\ Succeeded(r, "channel")
         /\ Len(calls[r]) = 1
         /\ result[r] = resps[r][1].items[1].id

\* C28, amended: when the first match of the search.messages response is
\* a record whose channel object has a non-empty id, ResolveChannelID
\* returns that id after exactly one remote call, whatever the channel's
\* name and whatever matches follow; when it is not, no id of the search
\* response is returned without a conversations.list request.
C28_FirstMatchWithIDIsTrusted ==
    \A r \in Runs :
      Searched(r)
      => IF SearchFound(resps[r][1])
           THEN /\ Succeeded(r, "channel")
                /\ Len(calls[r]) = 1
                /\ result[r] = resps[r][1].items[1].id
           ELSE Returned(r, "channel") => Len(calls[r]) > 1

\* C28 witness: the first match named a channel other than the one
\* searched for and a further match followed it; the id of the first was
\* returned after the one request.
C28_Witness ==
    \E r \in Runs :
      /\ Succeeded(r, "channel")
      /\ Len(calls[r]) = 1
      /\ calls[r][1].method = "search.messages"
      /\ Len(resps[r][1].items) = 2
      /\ SearchFound(resps[r][1])
      /\ resps[r][1].items[1].name # name[r]
      /\ resps[r][1].items[2].id # resps[r][1].items[1].id
      /\ result[r] = resps[r][1].items[1].id

\* The users.info requests issued for id so far.
InfoCallsFor(id) == {k \in DOMAIN infoCalls : infoCalls[k].user = id}

\* C29: under every interleaving of concurrent UsernameForID calls on one
\* UserProvider, users.info is requested at most once for each user id,
\* and all calls for one id return the same name.
C29_OneRequestPerID ==
    /\ \A id \in UserIDs : Cardinality(InfoCallsFor(id)) <= 1
    /\ \A a, b \in DOMAIN returns :
         returns[a].id = returns[b].id => returns[a].name = returns[b].name

\* C29 witness: while one goroutine waits at the mutex for an id, the
\* other, having asked for the same id before and got a display name,
\* is asking users.info about another id; the first call for the shared
\* id was the only request for it.
C29_Witness ==
    \E g, h \in Goroutines :
      /\ g # h
      /\ upc[g] = "lock"
      /\ upc[h] = "call"
      /\ uid[h] # uid[g]
      /\ Len(returns) = 1
      /\ returns[1].by = h
      /\ returns[1].id = uid[g]
      /\ returns[1].name = "Display"
      /\ Cardinality(InfoCallsFor(uid[g])) = 1

\* The users.info call failed, or its response had no user object.
NoUserObject(raw) == FailedCall(raw) \/ ~raw.hasUser

\* C30: UsernameForID never returns an error.  When the users.info call
\* fails or the response has no user object, the call returns the raw id
\* and stores it in the cache: every call for that id returns the raw id,
\* the later ones without a request, and users.info is not asked about
\* the id again.
C30_FailureFallsBackToRawID ==
    /\ \A j \in DOMAIN returns : returns[j].err = NoErr
    /\ \A k \in DOMAIN infoResps :
         LET id == infoResps[k].user IN
         NoUserObject(infoResps[k].raw)
         => /\ cache[id] = <<id>>
            /\ Cardinality(InfoCallsFor(id)) = 1
            /\ \A j \in DOMAIN returns :
                 returns[j].id = id => returns[j].name = id
            /\ \E j \in DOMAIN returns :
                 /\ returns[j].id = id
                 /\ returns[j].asked
                 /\ returns[j].by = infoResps[k].by
                 /\ \A i \in DOMAIN returns :
                      (i # j /\ returns[i].id = id)
                      => i > j /\ ~returns[i].asked

\* C30 witness: the users.info call for an id failed in transport; that
\* call and a later call by the other goroutine both returned the raw id,
\* after the one request.
C30_Witness ==
    /\ Len(infoResps) = 1
    /\ infoResps[1].raw.kind = "neterr"
    /\ Len(infoCalls) = 1
    /\ Len(returns) = 2
    /\ returns[1].id = infoResps[1].user
    /\ returns[2].id = infoResps[1].user
    /\ returns[1].by # returns[2].by
    /\ returns[2].name = infoResps[1].user
    /\ ~returns[2].asked
    /\ cache[infoResps[1].user] = <<infoResps[1].user>>

\* C31: ListChannelHistory with a limit N > 0 issues at most N page
\* requests when every page holds at least one key-value record, and has
\* returned once the N-th such page is in, even when every page carries a
\* continuation cursor.
C31_HistoryAtMostLimitRequests ==
    \A r \in Runs :
      (/\ op[r] = "history"
       /\ argLimit[r] > 0
       /\ \A k \in DOMAIN resps[r] :
            ~FailedCall(resps[r][k]) /\ NumMaps(resps[r][k]) >= 1)
      => /\ Len(calls[r]) <= argLimit[r]
         /\ Len(calls[r]) = argLimit[r] => Succeeded(r, "history")

\* C31 witness: with limit 2, two pages of one record each, both with a
\* continuation cursor; the fetch has returned after the second request.
C31_Witness ==
    \E r \in Runs :
      /\ Succeeded(r, "history")
      /\ argLimit[r] = 2
      /\ Len(calls[r]) = 2
      /\ \A k \in 1..2 :
           /\ NumMaps(resps[r][k]) = 1
           /\ resps[r][k].next # NoCursor
      /\ Len(result[r]) = 2

\* s is empty, only whitespace, or only the marker m with whitespace
\* around it.
OnlyMarker(s, m) ==
    /\ \A i \in DOMAIN s : s[i] \in Whitespace \cup {m}
    /\ Cardinality({i \in DOMAIN s : s[i] = m}) <= 1

\* C32: ResolveChannelID given an input that is empty, only whitespace or
\* only the '#' marker, and ResolveUserID given an input that is empty,
\* only whitespace or only the '@' marker, return an error and no id and
\* issue no remote call.
C32_EmptyReferenceIsAnError ==
    \A r \in Runs :
      (\/ op[r] = "channel" /\ OnlyMarker(argRef[r], "#")
       \/ op[r] = "user" /\ OnlyMarker(argRef[r], "@"))
      => /\ pc[r] = "done"
         /\ err[r] # NoErr
         /\ result[r] = <<>>
         /\ calls[r] = <<>>

\* C32 witness: ResolveUserID was given the marker between two blanks
\* and has returned "user handle is empty" without a request.
C32_Witness ==
    \E r \in Runs :
      /\ Returned(r, "user")
      /\ argRef[r] = <<" ", "@", " ">>
      /\ err[r] = <<"user handle is empty">>
      /\ calls[r] = <<>>

\* C33: NormalizeTimestamp is idempotent: the token GetMessage and
\* ListThread hold after normalizing the caller's token t is
\* NormalizeTimestamp(t), and normalizing it again gives the same token.
C33_NormalizeTimestampIdempotent ==
    \A r \in Runs :
      TakesTimestamp(r)
      => /\ ts[r] = NormalizeTimestamp(argTs[r])
         /\ NormalizeTimestamp(ts[r]) = ts[r]
         /\ NormalizeTimestamp(NormalizeTimestamp(argTs[r]))
              = NormalizeTimestamp(argTs[r])

\* C33 witness: GetMessage was given 16 characters without a separator;
\* its local ts has 17 characters, the separator among them, and
\* normalizing it once more changes nothing.
C33_Witness ==
    \E r \in Runs :
      /\ op[r] = "message"
      /\ argTs[r] = Ts16Letter
      /\ Len(ts[r]) = 17
      /\ ts[r][11] = "."
      /\ NormalizeTimestamp(ts[r]) = ts[r]

\* The number a string of decimal digits stands for.
RECURSIVE Atoi(_)
Atoi(s) ==
    IF s = <<>> THEN 0
    ELSE 10 * Atoi(SubSeq(s, 1, Len(s) - 1))
         + (CHOOSE d \in 0..9 : DigitChars[d + 1] = s[Len(s)])

Lists(r) == op[r] \in {"userconvs", "allconvs"}

\* C34: ListUserConversations and ListAllConversations each issue exactly
\* one request; its limit parameter is a number in 1..1000: 100 when the
\* caller's limit is <= 0, 1000 when it is above 1000, the caller's limit
\* otherwise; and the cursor parameter is sent exactly when the caller's
\* cursor is non-empty, with the caller's cursor as its value.
C34_ListingRequest ==
    \A r \in Runs :
      Lists(r)
      => /\ pc[r] = "done"
         /\ Len(calls[r]) = 1
         /\ calls[r][1].method =
              (IF op[r] = "userconvs" THEN "users.conversations"
               ELSE "conversations.list")
         /\ "limit" \in calls[r][1].keys
         /\ \A i \in DOMAIN calls[r][1].limit :
              \E d \in DOMAIN DigitChars : calls[r][1].limit[i] = DigitChars[d]
         /\ LET sent == Atoi(calls[r][1].limit) IN
            /\ sent \in 1..1000
            /\ sent = (IF argLimit[r] <= 0 THEN 100
                       ELSE IF argLimit[r] > 1000 THEN 1000
                       ELSE argLimit[r])
         /\ "cursor" \in calls[r][1].keys <=> cursor[r] # NoCursor
         /\ "cursor" \in calls[r][1].keys => calls[r][1].cursor = cursor[r]

\* C34 witness: ListUserConversations was called with limit 1001 and a
\* cursor; its one request carried limit "1000" and that cursor.
C34_Witness ==
    \E r \in Runs :
      /\ Returned(r, "userconvs")
      /\ argLimit[r] = 1001
      /\ cursor[r] # NoCursor
      /\ Len(calls[r]) = 1
      /\ calls[r][1].limit = <<"1", "0", "0", "0">>
      /\ "cursor" \in calls[r][1].keys
      /\ calls[r][1].cursor = cursor[r]

====
